---- MODULE Spec2Model ----
(***************************************************************************)
(* A model of the OpenCode usage tracker plugin (usage-tracker.ts): the    *)
(* SQLite-backed usage store, the pricing resolver and cost calculator,    *)
(* the message.updated event handler with its in-memory session cache and  *)
(* toast counters, and the usage / globalusage tools.                      *)
(*                                                                         *)
(* Conventions.                                                            *)
(*  - A JavaScript string is a sequence of one-character strings, so that  *)
(*    split, endsWith and LIKE are computed character by character.        *)
(*  - number | null is an option: Null is <<>>, a known value v is <<v>>.  *)
(*  - Rates are in mills (0.001 $) per million tokens and money is in      *)
(*    nano-dollars, so count * rate / 1_000_000 dollars is count * rate    *)
(*    nano-dollars: the arithmetic is exact (the doubles of the code are   *)
(*    modelled as reals).                                                  *)
(***************************************************************************)
EXTENDS Integers, Sequences, FiniteSets, TLC

VARIABLES
    store,              \* rows of table token_usage, in rowid order
    config,             \* the PluginConfig resolved at startup
    sessionStats,       \* Map<string, SessionStats>
    processedMessages,  \* Set<string>
    lastToastTime,
    messagesSinceToast,
    costSinceToast,
    now,                \* the wall clock (Date.now())
    active,             \* the plugin returned its hooks (event handler and tools)
    sent,               \* toasts handed to client.tui.showToast by the last step
    ret,                \* what the last invoked operation returned
    writers,            \* the plugins of several processes sharing the database
                        \* file: each one's closure state and handler position
    awaiting            \* the number of handlers suspended at the await of the
                        \* usage toast, before resetToastTracking

vars == <<store, config, sessionStats, processedMessages, lastToastTime,
          messagesSinceToast, costSinceToast, now, active, sent, ret, writers,
          awaiting>>

(***************************************************************************)
(* Options and strings                                                     *)
(***************************************************************************)
Null == <<>>

Some(v) == <<v>>

IsNull(o) == o = Null

Val(o) == o[1]

Slash == "/"

Last(s) == s[Len(s)]

\* String.prototype.split("/"): the segments between separators, at least one.
RECURSIVE SplitFrom(_, _)
SplitFrom(s, cur) ==
    IF s = <<>> THEN <<cur>>
    ELSE IF Head(s) = Slash THEN <<cur>> \o SplitFrom(Tail(s), <<>>)
    ELSE SplitFrom(Tail(s), Append(cur, Head(s)))

Split(s) == SplitFrom(s, <<>>)

\* String.prototype.endsWith
EndsWith(s, suffix) ==
    /\ Len(suffix) <= Len(s)
    /\ SubSeq(s, Len(s) - Len(suffix) + 1, Len(s)) = suffix

(***************************************************************************)
(* Model identifiers seen in events and in the pricing tables              *)
(***************************************************************************)
SonnetFull == <<"a","n","t","h","r","o","p","i","c","/","c","l","a","u","d","e","-","s","o","n","n","e","t","-","4","-","5">>
OpusFull == <<"a","n","t","h","r","o","p","i","c","/","c","l","a","u","d","e","-","o","p","u","s","-","4","-","5">>
Gpt5Full == <<"o","p","e","n","a","i","/","g","p","t","-","5">>
Gpt51Full == <<"o","p","e","n","a","i","/","g","p","t","-","5",".","1">>
Gpt52Full == <<"o","p","e","n","a","i","/","g","p","t","-","5",".","2">>
Gpt5MiniFull == <<"o","p","e","n","a","i","/","g","p","t","-","5","-","m","i","n","i">>
SonnetBare == <<"c","l","a","u","d","e","-","s","o","n","n","e","t","-","4","-","5">>
SonnetBedrock == <<"b","e","d","r","o","c","k","/","c","l","a","u","d","e","-","s","o","n","n","e","t","-","4","-","5">>
Gpt5Bare == <<"g","p","t","-","5">>
UnknownStr == <<"u","n","k","n","o","w","n">>
LlamaFull == <<"l","o","c","a","l","/","l","l","a","m","a">>
MyModelBare == <<"m","y","-","m","o","d","e","l">>
MyModelFull == <<"a","c","m","e","/","m","y","-","m","o","d","e","l">>

(***************************************************************************)
(* Pricing                                                                 *)
(***************************************************************************)
Card(i, o, cr, cw) == [input |-> i, output |-> o, cacheRead |-> cr, cacheWrite |-> cw]

Entry(k, p) == [key |-> k, pricing |-> p]

\* DEFAULT_PRICING, in the order of its keys (rates in mills per million tokens)
DEFAULT_PRICING ==
    << Entry(SonnetFull,   Card(3000, 15000, 300, 3750)),
       Entry(OpusFull,     Card(5000, 25000, 500, 6250)),
       Entry(Gpt5Full,     Card(1250, 10000, 125, 0)),
       Entry(Gpt51Full,    Card(1250, 10000, 125, 0)),
       Entry(Gpt52Full,    Card(1750, 14000, 175, 0)),
       Entry(Gpt5MiniFull, Card(250, 2000, 25, 0)) >>

Keys(table) == {table[i].key : i \in 1..Len(table)}

\* table[key] of a JavaScript object held as its entries in key order
Lookup(table, key) ==
    IF key \in Keys(table)
    THEN Some((CHOOSE i \in 1..Len(table) : table[i].key = key))
    ELSE Null

\* a plausible slip: { ...b, ...a }, the defaults spread over the overrides
RECURSIVE SpreadKeepsFirst(_, _)
SpreadKeepsFirst(a, b) ==
    IF b = <<>> THEN a
    ELSE LET e == Head(b)
         IN SpreadKeepsFirst(IF e.key \in Keys(a) THEN a ELSE Append(a, e), Tail(b))

\* { ...a, ...b }: a key of b already in a keeps its place and takes b's value,
\* a new key of b is appended, in b's order.
RECURSIVE Spread(_, _)
Spread(a, b) ==
    IF b = <<>> THEN a
    ELSE LET e == Head(b)
             merged == IF e.key \in Keys(a)
                       THEN [i \in 1..Len(a) |-> IF a[i].key = e.key THEN e ELSE a[i]]
                       ELSE Append(a, e)
         IN Spread(merged, Tail(b))

\* getConfig: pricing: { ...DEFAULT_PRICING, ...c?.pricing }
MergedPricing(overrides) == Spread(DEFAULT_PRICING, overrides)

\* the first entry, in key order, matching the model name without its provider
RECURSIVE FirstSuffixMatch(_, _)
FirstSuffixMatch(entries, modelName) ==
    IF entries = <<>> THEN Null
    ELSE IF \/ EndsWith(Head(entries).key, <<Slash>> \o modelName)
            \/ Head(entries).key = modelName
         THEN Some(Head(entries).pricing)
         ELSE FirstSuffixMatch(Tail(entries), modelName)

getPricing(model, pricing) ==
    LET exact == Lookup(pricing, model)
    IN IF ~IsNull(exact) THEN Some(pricing[Val(exact)].pricing)
       ELSE FirstSuffixMatch(pricing, Last(Split(model)))

Tokens(i, o, cr, cw) == [input |-> i, output |-> o, cacheRead |-> cr, cacheWrite |-> cw]

RateCost(tokens, p) ==
    tokens.input * p.input + tokens.output * p.output
    + tokens.cacheRead * p.cacheRead + tokens.cacheWrite * p.cacheWrite

\* a plausible slip: the host's cost wins whenever it is there
calculateCostHostFirst(tokens, pricing, opencodeCost) ==
    IF ~IsNull(opencodeCost) /\ Val(opencodeCost) > 0 THEN opencodeCost
    ELSE IF ~IsNull(pricing) THEN Some(RateCost(tokens, Val(pricing)))
    ELSE Null

\* a plausible slip: >= 0 for > 0
calculateCostZeroFallback(tokens, pricing, opencodeCost) ==
    IF ~IsNull(pricing) THEN Some(RateCost(tokens, Val(pricing)))
    ELSE IF ~IsNull(opencodeCost) /\ Val(opencodeCost) >= 0 THEN opencodeCost
    ELSE Null

\* opencodeCost is Null for undefined
calculateCost(tokens, pricing, opencodeCost) ==
    IF ~IsNull(pricing) THEN Some(RateCost(tokens, Val(pricing)))
    ELSE IF ~IsNull(opencodeCost) /\ Val(opencodeCost) > 0 THEN opencodeCost
    ELSE Null

(***************************************************************************)
(* Dates.  A Date value is [day, ms]: whole days since 1970-01-01 UTC and  *)
(* the milliseconds into that day.  tz is the local zone's offset east of  *)
(* UTC in minutes, fixed while the process runs.                           *)
(***************************************************************************)
DayMs == 24 * 60 * 60 * 1000

MinuteMs == 60 * 1000

Date(day, ms) == [day |-> day, ms |-> ms]

\* carry milliseconds outside 0..DayMs-1 into the day
NormDate(day, ms) == Date(day + (ms \div DayMs), ms % DayMs)

PlusMs(t, k) == NormDate(t.day, t.ms + k)

\* ECMAScript MakeDay(year, month, date) with a 0-based month; date may lie
\* outside the month (setDate(-3)) and is carried.
MakeDay(year, month, date) ==
    LET m   == month + 1
        y   == IF m <= 2 THEN year - 1 ELSE year
        era == y \div 400
        yoe == y - era * 400
        doy == ((153 * (IF m > 2 THEN m - 3 ELSE m + 9) + 2) \div 5) + date - 1
        doe == yoe * 365 + (yoe \div 4) - (yoe \div 100) + doy
    IN era * 146097 + doe - 719468

\* the civil fields of a day number: [year, month (0-based), date]
CivilOfDay(day) ==
    LET z   == day + 719468
        era == z \div 146097
        doe == z - era * 146097
        yoe == (doe - (doe \div 1460) + (doe \div 36524) - (doe \div 146096)) \div 365
        doy == doe - (365 * yoe + (yoe \div 4) - (yoe \div 100))
        mp  == (5 * doy + 2) \div 153
        d   == doy - ((153 * mp + 2) \div 5) + 1
        m   == IF mp < 10 THEN mp + 3 ELSE mp - 9
    IN [year |-> yoe + era * 400 + (IF m <= 2 THEN 1 ELSE 0), month |-> m - 1, date |-> d]

\* the local wall-clock reading of t: [year, month, date, weekday, ms]
LocalFields(t, tz) ==
    LET l == NormDate(t.day, t.ms + tz * MinuteMs)
        c == CivilOfDay(l.day)
    IN [year |-> c.year, month |-> c.month, date |-> c.date,
        weekday |-> (l.day + 4) % 7, ms |-> l.ms]

\* new Date(year, month, date) and the Date setters: local fields to a Date
FromLocal(year, month, date, ms, tz) ==
    NormDate(MakeDay(year, month, date), ms - tz * MinuteMs)

\* Date.prototype.toISOString: "YYYY-MM-DDTHH:mm:ss.sssZ" as its seven
\* zero-padded fields
toISOString(t) ==
    LET c == CivilOfDay(t.day)
    IN << c.year, c.month + 1, c.date,
          t.ms \div (60 * MinuteMs), (t.ms \div MinuteMs) % 60,
          (t.ms \div 1000) % 60, t.ms % 1000 >>

\* new Date(iso).getTime()
ParseISO(iso) ==
    Date(MakeDay(iso[1], iso[2] - 1, iso[3]),
         iso[4] * 60 * MinuteMs + iso[5] * MinuteMs + iso[6] * 1000 + iso[7])

\* comparison of two ISO strings as TEXT (byte order): the fields are fixed
\* width, so it is the lexicographic order of the field tuples
RECURSIVE TextLess(_, _)
TextLess(a, b) ==
    IF a = <<>> \/ b = <<>> THEN a = <<>> /\ b # <<>>
    ELSE IF Head(a) # Head(b) THEN Head(a) < Head(b)
    ELSE TextLess(Tail(a), Tail(b))

TextGeq(a, b) == ~TextLess(a, b)

getStartOfDay(date, tz) ==
    LET l == LocalFields(date, tz)
    IN toISOString(FromLocal(l.year, l.month, l.date, 0, tz))

\* a plausible slip: the week is taken to start on Sunday
getStartOfWeekSunday(date, tz) ==
    LET l    == LocalFields(date, tz)
        diff == l.date - l.weekday
    IN toISOString(FromLocal(l.year, l.month, diff, 0, tz))

getStartOfWeek(date, tz) ==
    LET l    == LocalFields(date, tz)
        day  == l.weekday
        diff == l.date - day + (IF day = 0 THEN -6 ELSE 1)
    IN toISOString(FromLocal(l.year, l.month, diff, 0, tz))

getStartOfMonth(date, tz) ==
    LET l == LocalFields(date, tz)
    IN toISOString(FromLocal(l.year, l.month, 1, 0, tz))

getStartOfYear(date, tz) ==
    LET l == LocalFields(date, tz)
    IN toISOString(FromLocal(l.year, 0, 1, 0, tz))

farFuture == <<2100, 1, 1, 0, 0, 0, 0>>

epochStart == <<1970, 1, 1, 0, 0, 0, 0>>

(***************************************************************************)
(* Database layer: class UsageDatabase over table token_usage              *)
(***************************************************************************)
Row(id, session, message, model, provider, tokens, cost, created, machine) ==
    [id |-> id, session_id |-> session, message_id |-> message, model |-> model,
     provider |-> provider, input_tokens |-> tokens.input,
     output_tokens |-> tokens.output, cache_read_tokens |-> tokens.cacheRead,
     cache_write_tokens |-> tokens.cacheWrite, cost |-> cost,
     created_at |-> created, machine_id |-> machine]

RowsOf(rows) == {rows[i] : i \in 1..Len(rows)}

\* the row conflicts with a stored one on PRIMARY KEY (id) or UNIQUE (message_id)
Conflicts(rows, record) ==
    \E i \in 1..Len(rows) :
        rows[i].id = record.id \/ rows[i].message_id = record.message_id

\* a plausible slip: INSERT OR REPLACE for INSERT OR IGNORE
insertReplace(rows, record, dbError) ==
    IF dbError THEN [ok |-> FALSE, rows |-> rows]
    ELSE [ok |-> TRUE,
          rows |-> Append(SelectSeq(rows, LAMBDA r : r.id # record.id
                                               /\ r.message_id # record.message_id),
                          record)]

\* a plausible slip: a plain INSERT, which throws on a stored key
insertStrict(rows, record, dbError) ==
    IF dbError \/ Conflicts(rows, record) THEN [ok |-> FALSE, rows |-> rows]
    ELSE [ok |-> TRUE, rows |-> Append(rows, record)]

\* a plausible slip: the catch block returns true as well
insertSwallowsError(rows, record, dbError) ==
    IF dbError THEN [ok |-> TRUE, rows |-> rows]
    ELSE IF Conflicts(rows, record) THEN [ok |-> TRUE, rows |-> rows]
    ELSE [ok |-> TRUE, rows |-> Append(rows, record)]

\* insert: INSERT OR IGNORE inside try/catch.  dbError: the statement throws
\* (disk full, database locked, ...).  Returns the boolean and the table.
insert(rows, record, dbError) ==
    IF dbError THEN [ok |-> FALSE, rows |-> rows]
    ELSE IF Conflicts(rows, record) THEN [ok |-> TRUE, rows |-> rows]
    ELSE [ok |-> TRUE, rows |-> Append(rows, record)]

\* a plausible slip: the table is not asked, only the processed set is trusted
hasMessageNever(rows, messageId) == FALSE

hasMessage(rows, messageId) ==
    \E i \in 1..Len(rows) : rows[i].message_id = messageId

\* ORDER BY created_at ASC: a stable insertion sort on the TEXT column
RECURSIVE InsertSorted(_, _)
InsertSorted(sorted, r) ==
    IF sorted = <<>> THEN <<r>>
    ELSE IF TextLess(r.created_at, Head(sorted).created_at) THEN <<r>> \o sorted
    ELSE <<Head(sorted)>> \o InsertSorted(Tail(sorted), r)

RECURSIVE OrderByCreatedAt(_)
OrderByCreatedAt(rows) ==
    IF rows = <<>> THEN <<>>
    ELSE InsertSorted(OrderByCreatedAt(SubSeq(rows, 1, Len(rows) - 1)), Last(rows))

getSessionStats(rows, sessionId) ==
    OrderByCreatedAt(SelectSeq(rows, LAMBDA r : r.session_id = sessionId))

\* SQLite folds the 26 ASCII upper-case letters for LIKE
Upper == <<"A","B","C","D","E","F","G","H","I","J","K","L","M",
           "N","O","P","Q","R","S","T","U","V","W","X","Y","Z">>

Lower == <<"a","b","c","d","e","f","g","h","i","j","k","l","m",
           "n","o","p","q","r","s","t","u","v","w","x","y","z">>

Fold(c) ==
    IF \E i \in 1..26 : Upper[i] = c
    THEN Lower[CHOOSE i \in 1..26 : Upper[i] = c]
    ELSE c

\* x LIKE pattern in SQLite's default configuration: % is any run of
\* characters, _ is any one character, ASCII letters match in either case.
RECURSIVE Like(_, _)
Like(pattern, x) ==
    IF pattern = <<>> THEN x = <<>>
    ELSE IF Head(pattern) = "%"
         THEN Like(Tail(pattern), x) \/ (x # <<>> /\ Like(pattern, Tail(x)))
    ELSE IF x = <<>> THEN FALSE
    ELSE IF Head(pattern) = "_" THEN Like(Tail(pattern), Tail(x))
    ELSE Fold(Head(pattern)) = Fold(Head(x)) /\ Like(Tail(pattern), Tail(x))

\* a plausible slip: the filter is compared with the model's last segment only
getAggregateStatsNameOnly(rows, machineId, startDate, endDate, modelFilter) ==
    LET matched == SelectSeq(rows, LAMBDA r :
            /\ r.machine_id = machineId
            /\ TextGeq(r.created_at, startDate)
            /\ TextLess(r.created_at, endDate)
            /\ (IsNull(modelFilter) \/ Val(modelFilter) = <<>>
                \/ Like(<<"%">> \o Val(modelFilter) \o <<"%">>, Last(Split(r.model)))))
        records == OrderByCreatedAt(matched)
    IN [records |-> records,
        sessionCount |-> Cardinality({records[i].session_id : i \in 1..Len(records)})]

\* a plausible slip: the rows of every machine are read
getAggregateStatsAllMachines(rows, machineId, startDate, endDate, modelFilter) ==
    LET matched == SelectSeq(rows, LAMBDA r :
            /\ TextGeq(r.created_at, startDate)
            /\ TextLess(r.created_at, endDate)
            /\ (IsNull(modelFilter) \/ Val(modelFilter) = <<>>
                \/ Like(<<"%">> \o Val(modelFilter) \o <<"%">>, r.model)))
        records == OrderByCreatedAt(matched)
    IN [records |-> records,
        sessionCount |-> Cardinality({records[i].session_id : i \in 1..Len(records)})]

\* modelFilter is Null for undefined; an empty string is falsy too
getAggregateStats(rows, machineId, startDate, endDate, modelFilter) ==
    LET matched == SelectSeq(rows, LAMBDA r :
            /\ r.machine_id = machineId
            /\ TextGeq(r.created_at, startDate)
            /\ TextLess(r.created_at, endDate)
            /\ (IsNull(modelFilter) \/ Val(modelFilter) = <<>>
                \/ Like(<<"%">> \o Val(modelFilter) \o <<"%">>, r.model)))
        records == OrderByCreatedAt(matched)
    IN [records |-> records,
        sessionCount |-> Cardinality({records[i].session_id : i \in 1..Len(records)})]

(***************************************************************************)
(* Folding records into statistics                                         *)
(***************************************************************************)
RowTokens(r) ==
    r.input_tokens + r.output_tokens + r.cache_read_tokens + r.cache_write_tokens

\* (cur ?? 0) + cost when cost is known, cur otherwise
AddCost(cur, cost) ==
    IF IsNull(cost) THEN cur
    ELSE Some((IF IsNull(cur) THEN 0 ELSE Val(cur)) + Val(cost))

\* byModel[model] of an AggregateStats after one more record
AggByModelAdd(byModel, r) ==
    LET cur == IF r.model \in DOMAIN byModel THEN byModel[r.model]
               ELSE [tokens |-> 0, cost |-> Null]
        new == [tokens |-> cur.tokens + RowTokens(r), cost |-> AddCost(cur.cost, r.cost)]
    IN [m \in (DOMAIN byModel) \cup {r.model} |-> IF m = r.model THEN new ELSE byModel[m]]

RECURSIVE AggFold(_, _)
AggFold(acc, records) ==
    IF records = <<>> THEN acc
    ELSE LET r == Head(records)
         IN AggFold([totalTokens |-> acc.totalTokens + RowTokens(r),
                     totalCost   |-> IF IsNull(r.cost) THEN acc.totalCost
                                     ELSE acc.totalCost + Val(r.cost),
                     hasAnyCost  |-> acc.hasAnyCost \/ ~IsNull(r.cost),
                     byModel     |-> AggByModelAdd(acc.byModel, r)],
                    Tail(records))

\* a plausible slip: a record of unknown cost is left out of the fold
calculateAggregatesSkipUnknown(records) ==
    LET f == AggFold([totalTokens |-> 0, totalCost |-> 0, hasAnyCost |-> FALSE,
                      byModel |-> <<>>],
                     SelectSeq(records, LAMBDA r : ~IsNull(r.cost)))
    IN [tokens |-> f.totalTokens,
        cost |-> IF f.hasAnyCost THEN f.totalCost ELSE 0,
        messages |-> Len(records), byModel |-> f.byModel]

calculateAggregates(records) ==
    LET f == AggFold([totalTokens |-> 0, totalCost |-> 0, hasAnyCost |-> FALSE,
                      byModel |-> <<>>], records)
    IN [tokens |-> f.totalTokens,
        cost |-> IF f.hasAnyCost THEN f.totalCost ELSE 0,
        messages |-> Len(records), byModel |-> f.byModel]

\* a plausible slip: the cache tokens are left out of the model's entry
StatsByModelAddNoCache(byModel, model, tokens, cost) ==
    LET cur == IF model \in DOMAIN byModel THEN byModel[model]
               ELSE [input |-> 0, output |-> 0, cacheRead |-> 0, cacheWrite |-> 0,
                     cost |-> Null]
        new == [input |-> cur.input + tokens.input,
                output |-> cur.output + tokens.output,
                cacheRead |-> cur.cacheRead,
                cacheWrite |-> cur.cacheWrite,
                cost |-> AddCost(cur.cost, cost)]
    IN [m \in (DOMAIN byModel) \cup {model} |-> IF m = model THEN new ELSE byModel[m]]

\* byModel[model] of a SessionStats after one more message
StatsByModelAdd(byModel, model, tokens, cost) ==
    LET cur == IF model \in DOMAIN byModel THEN byModel[model]
               ELSE [input |-> 0, output |-> 0, cacheRead |-> 0, cacheWrite |-> 0,
                     cost |-> Null]
        new == [input |-> cur.input + tokens.input,
                output |-> cur.output + tokens.output,
                cacheRead |-> cur.cacheRead + tokens.cacheRead,
                cacheWrite |-> cur.cacheWrite + tokens.cacheWrite,
                cost |-> AddCost(cur.cost, cost)]
    IN [m \in (DOMAIN byModel) \cup {model} |-> IF m = model THEN new ELSE byModel[m]]

RowTokenFields(r) ==
    Tokens(r.input_tokens, r.output_tokens, r.cache_read_tokens, r.cache_write_tokens)

RECURSIVE StatsFold(_, _)
StatsFold(stats, records) ==
    IF records = <<>> THEN stats
    ELSE LET r == Head(records)
         IN StatsFold([stats EXCEPT
                          !.totalTokens = @ + RowTokens(r),
                          !.totalCost = IF IsNull(r.cost) THEN @ ELSE @ + Val(r.cost),
                          !.byModel = StatsByModelAdd(@, r.model, RowTokenFields(r), r.cost)],
                      Tail(records))

buildSessionStats(records, clock) ==
    StatsFold([totalTokens |-> 0, totalCost |-> 0, messageCount |-> Len(records),
               startTime |-> IF Len(records) > 0 THEN ParseISO(records[1].created_at)
                             ELSE clock,
               byModel |-> <<>>],
              records)

(***************************************************************************)
(* Configuration                                                           *)
(***************************************************************************)
Hostname == <<"h","o","s","t">>

OrElse(o, default) == IF IsNull(o) THEN default ELSE Val(o)

\* a raw "usage-tracker" section: every field optional, pricing an entry list
RawConfig(enabled, machineId, toast, pricing) ==
    [enabled |-> enabled, machineId |-> machineId, toast |-> toast, pricing |-> pricing]

RawToast(enabled, trigger, messagesInterval, costThreshold, timeIntervalMinutes) ==
    [enabled |-> enabled, trigger |-> trigger, messagesInterval |-> messagesInterval,
     costThreshold |-> costThreshold, timeIntervalMinutes |-> timeIntervalMinutes]

NoToast == RawToast(Null, Null, Null, Null, Null)

\* getConfig.  tz is not part of the file: it is the zone of the process.
getConfig(c, tz) ==
    [enabled |-> OrElse(c.enabled, TRUE),
     machineId |-> OrElse(c.machineId, Hostname),
     toast |-> [enabled |-> OrElse(c.toast.enabled, FALSE),
                trigger |-> OrElse(c.toast.trigger, "messages"),
                messagesInterval |-> OrElse(c.toast.messagesInterval, 5),
                costThreshold |-> OrElse(c.toast.costThreshold, 100000000),
                timeIntervalMinutes |-> OrElse(c.toast.timeIntervalMinutes, 10)],
     pricing |-> MergedPricing(c.pricing),
     tz |-> tz]

(***************************************************************************)
(* The plugin's state and its message.updated handler                      *)
(***************************************************************************)
Toast(message, variant) == [message |-> message, variant |-> variant]

OpenFailedToast == Toast("Usage tracker: Failed to open database", "error")

SaveFailedToast == Toast("Usage tracker: Failed to save token usage", "error")

UsageToast == Toast("usage", "info")

RetVoid == [op |-> "none"]

EmptyStats(clock) ==
    [totalTokens |-> 0, totalCost |-> 0, messageCount |-> 0, startTime |-> clock,
     byModel |-> <<>>]

\* the closure state of a running plugin, with the table it writes to
PluginState ==
    [store |-> store, sessionStats |-> sessionStats,
     processedMessages |-> processedMessages, lastToastTime |-> lastToastTime,
     messagesSinceToast |-> messagesSinceToast, costSinceToast |-> costSinceToast,
     sent |-> <<>>]

\* message.model is a string, an object {providerID?, modelID?} or missing
ModelString(s) == [kind |-> "string", value |-> s]

ModelObject(providerID, modelID) ==
    [kind |-> "object", providerID |-> providerID, modelID |-> modelID]

ModelAbsent == [kind |-> "absent"]

ExtractModel(m) ==
    IF m.kind = "string" THEN m.value
    ELSE IF m.kind = "object" /\ ~IsNull(m.modelID)
         THEN LET providerID == OrElse(m.providerID, <<>>)
                  modelID == Val(m.modelID)
              IN IF providerID # <<>> THEN providerID \o <<Slash>> \o modelID
                 ELSE modelID
    ELSE UnknownStr

\* model.split("/")[0] ?? "unknown": split never yields an empty array
ExtractProvider(model) ==
    LET parts == Split(model)
    IN IF Len(parts) >= 1 THEN parts[1] ELSE UnknownStr

\* message.tokens: {input?, output?, cache?: {read?, write?}}
RawTokens(input, output, cache) == [input |-> input, output |-> output, cache |-> cache]

RawCache(read, write) == [read |-> read, write |-> write]

NormTokens(t) ==
    Tokens(OrElse(t.input, 0), OrElse(t.output, 0),
           IF IsNull(t.cache) THEN 0 ELSE OrElse(Val(t.cache).read, 0),
           IF IsNull(t.cache) THEN 0 ELSE OrElse(Val(t.cache).write, 0))

TotalOf(tokens) == tokens.input + tokens.output + tokens.cacheRead + tokens.cacheWrite

Event(type, role, completed, tokens, id, sessionID, model, cost) ==
    [type |-> type, role |-> role, completed |-> completed, tokens |-> tokens,
     id |-> id, sessionID |-> sessionID, model |-> model, cost |-> cost]

\* getOrCreateSessionStats
getOrCreateSessionStats(stats, sessionId, clock) ==
    IF sessionId \in DOMAIN stats THEN stats
    ELSE [s \in (DOMAIN stats) \cup {sessionId} |->
            IF s = sessionId THEN EmptyStats(clock) ELSE stats[s]]

\* a plausible slip: a message of unknown cost is counted as costing nothing
UpdateSessionStatsZeroCost(st, sessionId, model, tokens, cost, clock) ==
    LET created == getOrCreateSessionStats(st.sessionStats, sessionId, clock)
        old == created[sessionId]
        new == [old EXCEPT
                   !.totalTokens = @ + TotalOf(tokens),
                   !.totalCost = IF IsNull(cost) THEN @ ELSE @ + Val(cost),
                   !.messageCount = @ + 1,
                   !.byModel = StatsByModelAdd(@, model, tokens,
                                               IF IsNull(cost) THEN Some(0) ELSE cost)]
    IN [st EXCEPT !.sessionStats = [created EXCEPT ![sessionId] = new]]

\* a plausible slip: the entry's messageCount is incremented, and the toast is
\* awaited before its tokens, cost and models are brought up to date
UpdateSessionStatsCountOnly(st, sessionId, model, tokens, cost, clock) ==
    LET created == getOrCreateSessionStats(st.sessionStats, sessionId, clock)
    IN [st EXCEPT !.sessionStats =
                      [created EXCEPT ![sessionId].messageCount = @ + 1]]

\* the "Update session stats" block of the handler
UpdateSessionStats(st, sessionId, model, tokens, cost, clock) ==
    LET created == getOrCreateSessionStats(st.sessionStats, sessionId, clock)
        old == created[sessionId]
        new == [old EXCEPT
                   !.totalTokens = @ + TotalOf(tokens),
                   !.totalCost = IF IsNull(cost) THEN @ ELSE @ + Val(cost),
                   !.messageCount = @ + 1,
                   !.byModel = StatsByModelAdd(@, model, tokens, cost)]
    IN [st EXCEPT !.sessionStats = [created EXCEPT ![sessionId] = new]]

ElapsedMs(from, to) == (to.day - from.day) * DayMs + to.ms - from.ms

\* a plausible slip: > for >=
shouldShowToastStrict(toast, messages, cost, last, clock) ==
    IF ~toast.enabled THEN FALSE
    ELSE IF toast.trigger = "messages" THEN messages > toast.messagesInterval
    ELSE IF toast.trigger = "cost" THEN cost > toast.costThreshold
    ELSE IF toast.trigger = "time"
         THEN ElapsedMs(last, clock) > toast.timeIntervalMinutes * 60 * 1000
    ELSE FALSE

\* a plausible slip: the enabled flag is not looked at
shouldShowToastUnguarded(toast, messages, cost, last, clock) ==
    IF toast.trigger = "messages" THEN messages >= toast.messagesInterval
    ELSE IF toast.trigger = "cost" THEN cost >= toast.costThreshold
    ELSE IF toast.trigger = "time"
         THEN ElapsedMs(last, clock) >= toast.timeIntervalMinutes * 60 * 1000
    ELSE FALSE

shouldShowToast(toast, messages, cost, last, clock) ==
    IF ~toast.enabled THEN FALSE
    ELSE IF toast.trigger = "messages" THEN messages >= toast.messagesInterval
    ELSE IF toast.trigger = "cost" THEN cost >= toast.costThreshold
    ELSE IF toast.trigger = "time"
         THEN ElapsedMs(last, clock) >= toast.timeIntervalMinutes * 60 * 1000
    ELSE FALSE

\* a plausible slip: only the counter of messages is reset
resetToastTrackingCountOnly(st, clock) ==
    [st EXCEPT !.messagesSinceToast = 0]

resetToastTracking(st, clock) ==
    [st EXCEPT !.lastToastTime = clock, !.messagesSinceToast = 0, !.costSinceToast = 0]

\* the "Toast tracking" and "Show toast if triggered" blocks
TrackToast(st, cfg, cost, clock) ==
    LET counted == [st EXCEPT
                       !.messagesSinceToast = @ + 1,
                       !.costSinceToast = IF IsNull(cost) THEN @ ELSE @ + Val(cost)]
    IN IF shouldShowToast(cfg.toast, counted.messagesSinceToast,
                          counted.costSinceToast, counted.lastToastTime, clock)
       THEN resetToastTracking([counted EXCEPT !.sent = Append(@, UsageToast)], clock)
       ELSE counted

\* a plausible slip: the cache is brought up to date before the early return
InsertFailedButCounted(st, sessionId, model, tokens, cost, clock) ==
    [UpdateSessionStats(st, sessionId, model, tokens, cost, clock)
        EXCEPT !.sent = Append(@, SaveFailedToast)]

\* if (!success) { await showToast(error); return }
InsertFailed(st, sessionId, model, tokens, cost, clock) ==
    [st EXCEPT !.sent = Append(@, SaveFailedToast)]

\* a plausible slip: the message is marked processed before the insert
RecordMessageMarksFirst(st, cfg, message, dbError, clock) ==
    LET tokens   == NormTokens(Val(message.tokens))
        model    == ExtractModel(message.model)
        provider == ExtractProvider(model)
        pricing  == getPricing(model, cfg.pricing)
        cost     == calculateCost(tokens, pricing, message.cost)
        record   == Row(Len(st.store) + 1, message.sessionID, message.id, model,
                        provider, tokens, cost, toISOString(clock), cfg.machineId)
        res      == insert(st.store, record, dbError)
        marked   == [st EXCEPT !.processedMessages = @ \cup {message.id}]
    IN IF ~res.ok
       THEN InsertFailed(marked, message.sessionID, model, tokens, cost, clock)
       ELSE TrackToast(
                UpdateSessionStats([marked EXCEPT !.store = res.rows],
                                   message.sessionID, model, tokens, cost, clock),
                cfg, cost, clock)

\* the handler from "const tokens =" on: the message is new to this process
\* and to the table
RecordMessage(st, cfg, message, dbError, clock) ==
    LET tokens   == NormTokens(Val(message.tokens))
        model    == ExtractModel(message.model)
        provider == ExtractProvider(model)
        pricing  == getPricing(model, cfg.pricing)
        cost     == calculateCost(tokens, pricing, message.cost)
        record   == Row(Len(st.store) + 1, message.sessionID, message.id, model,
                        provider, tokens, cost, toISOString(clock), cfg.machineId)
        res      == insert(st.store, record, dbError)
    IN IF ~res.ok
       THEN InsertFailed(st, message.sessionID, model, tokens, cost, clock)
       ELSE TrackToast(
                UpdateSessionStats(
                    [st EXCEPT !.store = res.rows,
                               !.processedMessages = @ \cup {message.id}],
                    message.sessionID, model, tokens, cost, clock),
                cfg, cost, clock)

\* a plausible slip: the role of the message is not looked at
HandleEventAnyRole(st, cfg, event, dbError, clock) ==
    IF event.type # "message.updated" THEN st
    ELSE IF \/ ~event.completed
            \/ IsNull(event.tokens)
            \/ event.id \in st.processedMessages
         THEN st
    ELSE IF hasMessage(st.store, event.id)
         THEN [st EXCEPT !.processedMessages = @ \cup {event.id}]
    ELSE RecordMessage(st, cfg, event, dbError, clock)

\* event: async ({ event }) => { ... }
HandleEvent(st, cfg, event, dbError, clock) ==
    IF event.type # "message.updated" THEN st
    ELSE IF \/ event.role # "assistant"
            \/ ~event.completed
            \/ IsNull(event.tokens)
            \/ event.id \in st.processedMessages
         THEN st
    ELSE IF hasMessage(st.store, event.id)
         THEN [st EXCEPT !.processedMessages = @ \cup {event.id}]
    ELSE RecordMessage(st, cfg, event, dbError, clock)

\* the "Toast tracking" block and "Show toast if triggered" up to the await of
\* client.tui.showToast: the toast is handed to the host, the counters are
\* not reset yet
TrackToastToAwait(st, cfg, cost, clock) ==
    LET counted == [st EXCEPT
                       !.messagesSinceToast = @ + 1,
                       !.costSinceToast = IF IsNull(cost) THEN @ ELSE @ + Val(cost)]
    IN IF shouldShowToast(cfg.toast, counted.messagesSinceToast,
                          counted.costSinceToast, counted.lastToastTime, clock)
       THEN [counted EXCEPT !.sent = Append(@, UsageToast)]
       ELSE counted

\* the handler from "const tokens =" up to the await of the usage toast, or to
\* its end when no toast is due
RecordMessageToAwait(st, cfg, message, dbError, clock) ==
    LET tokens   == NormTokens(Val(message.tokens))
        model    == ExtractModel(message.model)
        provider == ExtractProvider(model)
        pricing  == getPricing(model, cfg.pricing)
        cost     == calculateCost(tokens, pricing, message.cost)
        record   == Row(Len(st.store) + 1, message.sessionID, message.id, model,
                        provider, tokens, cost, toISOString(clock), cfg.machineId)
        res      == insert(st.store, record, dbError)
    IN IF ~res.ok
       THEN InsertFailed(st, message.sessionID, model, tokens, cost, clock)
       ELSE TrackToastToAwait(
                UpdateSessionStats(
                    [st EXCEPT !.store = res.rows,
                               !.processedMessages = @ \cup {message.id}],
                    message.sessionID, model, tokens, cost, clock),
                cfg, cost, clock)

\* the handler up to the await of the usage toast, or to its end
HandleEventToAwait(st, cfg, event, dbError, clock) ==
    IF event.type # "message.updated" THEN st
    ELSE IF \/ event.role # "assistant"
            \/ ~event.completed
            \/ IsNull(event.tokens)
            \/ event.id \in st.processedMessages
         THEN st
    ELSE IF hasMessage(st.store, event.id)
         THEN [st EXCEPT !.processedMessages = @ \cup {event.id}]
    ELSE RecordMessageToAwait(st, cfg, event, dbError, clock)

\* the handler is left suspended at the await of the usage toast
SuspendsAtToast(post) == \E i \in 1..Len(post.sent) : post.sent[i] = UsageToast

(***************************************************************************)
(* The tools                                                               *)
(***************************************************************************)
\* tool usage: sessionId is what getCurrentSessionId returned (Null: none)
usageExecute(st, sessionId, clock) ==
    IF IsNull(sessionId) THEN [op |-> "usage", text |-> "No active session"]
    ELSE LET sid == Val(sessionId)
             cached == sid \in DOMAIN st.sessionStats
         IN IF cached /\ st.sessionStats[sid].messageCount # 0
            THEN [op |-> "usage", text |-> "stats", session |-> sid,
                  stats |-> st.sessionStats[sid]]
            ELSE LET records == getSessionStats(st.store, sid)
                 IN IF Len(records) = 0
                    THEN [op |-> "usage", text |-> "No usage data for this session yet"]
                    ELSE [op |-> "usage", text |-> "stats", session |-> sid,
                          stats |-> buildSessionStats(records, clock)]

\* one period of globalusage: the range query folded, with its session count
Period(rows, machineId, startDate, modelFilter) ==
    LET data == getAggregateStats(rows, machineId, startDate, farFuture, modelFilter)
        agg  == calculateAggregates(data.records)
    IN [tokens |-> agg.tokens, cost |-> agg.cost, messages |-> agg.messages,
        byModel |-> agg.byModel, sessions |-> data.sessionCount,
        records |-> data.records, start |-> startDate]

GlobalArgs(year, all, model) == [year |-> year, all |-> all, model |-> model]

\* tool globalusage
globalusageExecute(rows, cfg, args, clock) ==
    [op |-> "globalusage", args |-> args, at |-> clock,
     today |-> Period(rows, cfg.machineId, getStartOfDay(clock, cfg.tz), args.model),
     week  |-> Period(rows, cfg.machineId, getStartOfWeek(clock, cfg.tz), args.model),
     month |-> Period(rows, cfg.machineId, getStartOfMonth(clock, cfg.tz), args.model),
     year  |-> IF args.year \/ args.all
               THEN Some(Period(rows, cfg.machineId, getStartOfYear(clock, cfg.tz), args.model))
               ELSE Null,
     allTime |-> IF args.all
                 THEN Some(Period(rows, cfg.machineId, epochStart, args.model))
                 ELSE Null]

(***************************************************************************)
(* Bounds and inputs of the plugin specification                           *)
(***************************************************************************)
MaxMessages == 3

MaxClock == 1

MessageIds == 1..MaxMessages

SessionIds == {"s1", "s2"}

\* Sunday 2024-03-03 23:59:59.999 UTC: one tick before a Monday
T0 == Date(MakeDay(2024, 2, 3), DayMs - 1)

TokensA == RawTokens(Some(1000), Some(500), Null)

TokensB == RawTokens(Some(2000), Null, Some(RawCache(Some(100), Null)))

\* the model, token and cost shapes a completed assistant message comes in
MessageShapes ==
    << [model |-> ModelString(SonnetFull), tokens |-> TokensA, cost |-> Some(7000)],
       [model |-> ModelObject(Null, Some(Gpt5Bare)), tokens |-> TokensB, cost |-> Some(0)],
       [model |-> ModelAbsent, tokens |-> TokensA, cost |-> Null],
       [model |-> ModelObject(Some(<<"l","o","c","a","l">>), Some(<<"l","l","a","m","a">>)),
        tokens |-> TokensB, cost |-> Some(7000)] >>

\* A message is one message of one session: every third one is of session s2,
\* and the shapes are taken in turn.
SessionOf(id) == IF id % 3 = 0 THEN "s2" ELSE "s1"

ShapeOf(id) == MessageShapes[((id - 1) % Len(MessageShapes)) + 1]

CompletedMessages ==
    { Event("message.updated", "assistant", TRUE, Some(ShapeOf(id).tokens), id,
            SessionOf(id), ShapeOf(id).model, ShapeOf(id).cost) : id \in MessageIds }

\* events the handler has to ignore
OtherEvents ==
    { Event("session.idle", "assistant", TRUE, Some(TokensA), 1, "s1", ModelAbsent, Null),
      Event("message.updated", "user", TRUE, Some(TokensA), 1, "s1", ModelAbsent, Null),
      Event("message.updated", "assistant", FALSE, Some(TokensA), 1, "s1", ModelAbsent, Null),
      Event("message.updated", "assistant", TRUE, Null, 1, "s1", ModelAbsent, Null) }

Events == CompletedMessages \cup OtherEvents

DefaultRawConfig == RawConfig(Null, Null, NoToast, <<>>)

(***************************************************************************)
(* Actions of the plugin                                                   *)
(***************************************************************************)
\* the host delivers an event; dbError: the INSERT, if reached, throws
OnEvent(event, dbError) ==
    /\ active
    /\ LET post == HandleEvent(PluginState, config, event, dbError, now)
       IN /\ store' = post.store
          /\ sessionStats' = post.sessionStats
          /\ processedMessages' = post.processedMessages
          /\ lastToastTime' = post.lastToastTime
          /\ messagesSinceToast' = post.messagesSinceToast
          /\ costSinceToast' = post.costSinceToast
          /\ sent' = post.sent
    /\ ret' = RetVoid
    /\ UNCHANGED <<config, now, active, writers, awaiting>>

\* the user runs /usage; the host names the current session, or none
UsageTool(sessionId) ==
    /\ active
    /\ ret' = usageExecute(PluginState, sessionId, now)
    /\ sent' = <<>>
    /\ UNCHANGED <<store, config, sessionStats, processedMessages, lastToastTime,
                   messagesSinceToast, costSinceToast, now, active, writers, awaiting>>

\* the user runs /globalusage with arguments year, all and model
GlobalUsageTool(year, all, model) ==
    /\ active
    /\ ret' = globalusageExecute(store, config, GlobalArgs(year, all, model), now)
    /\ sent' = <<>>
    /\ UNCHANGED <<store, config, sessionStats, processedMessages, lastToastTime,
                   messagesSinceToast, costSinceToast, now, active, writers, awaiting>>

\* the wall clock advances by a millisecond
Tick ==
    /\ ElapsedMs(T0, now) < MaxClock
    /\ now' = PlusMs(now, 1)
    /\ sent' = <<>>
    /\ ret' = RetVoid
    /\ UNCHANGED <<store, config, sessionStats, processedMessages, lastToastTime,
                   messagesSinceToast, costSinceToast, active, writers, awaiting>>

\* a plausible slip: the migration recreates the table at every start
RestartRecreatesTable(openFails) ==
    /\ sessionStats' = <<>>
    /\ processedMessages' = {}
    /\ lastToastTime' = now
    /\ messagesSinceToast' = 0
    /\ costSinceToast' = 0
    /\ IF ~config.enabled THEN active' = FALSE /\ sent' = <<>>
       ELSE IF openFails THEN active' = FALSE /\ sent' = <<OpenFailedToast>>
       ELSE active' = TRUE /\ sent' = <<>>
    /\ store' = IF openFails THEN store ELSE <<>>
    /\ ret' = RetVoid
    /\ UNCHANGED <<config, now, writers, awaiting>>

\* a plausible slip: the hooks are returned although the database did not open
RestartKeepsHooks(openFails) ==
    /\ sessionStats' = <<>>
    /\ processedMessages' = {}
    /\ lastToastTime' = now
    /\ messagesSinceToast' = 0
    /\ costSinceToast' = 0
    /\ IF ~config.enabled THEN active' = FALSE /\ sent' = <<>>
       ELSE IF openFails THEN active' = TRUE /\ sent' = <<OpenFailedToast>>
       ELSE active' = TRUE /\ sent' = <<>>
    /\ ret' = RetVoid
    /\ UNCHANGED <<store, config, now, writers, awaiting>>

\* the host process restarts and loads the plugin again: UsageTrackerPlugin(ctx)
\* up to its return.  openFails: new UsageDatabase(dbPath) throws.
Restart(openFails) ==
    /\ sessionStats' = <<>>
    /\ processedMessages' = {}
    /\ lastToastTime' = now
    /\ messagesSinceToast' = 0
    /\ costSinceToast' = 0
    /\ IF ~config.enabled THEN active' = FALSE /\ sent' = <<>>
       ELSE IF openFails THEN active' = FALSE /\ sent' = <<OpenFailedToast>>
       ELSE active' = TRUE /\ sent' = <<>>
    /\ ret' = RetVoid
    /\ UNCHANGED <<store, config, now, writers, awaiting>>

\* the closure variables of a plugin that has just started at the time now
InitMemory ==
    /\ sessionStats = <<>>
    /\ processedMessages = {}
    /\ lastToastTime = now
    /\ messagesSinceToast = 0
    /\ costSinceToast = 0
    /\ active = TRUE
    /\ sent = <<>>
    /\ writers = <<>>
    /\ awaiting = 0

InitPlugin ==
    /\ store = <<>>
    /\ config = getConfig(DefaultRawConfig, 0)
    /\ now = T0
    /\ InitMemory

Init == InitPlugin /\ ret = RetVoid

Next ==
    \/ \E event \in Events, dbError \in BOOLEAN : OnEvent(event, dbError)
    \/ \E sessionId \in {Null} \cup {Some(s) : s \in SessionIds} : UsageTool(sessionId)
    \/ GlobalUsageTool(FALSE, FALSE, Null)
    \/ Tick
    \/ \E openFails \in BOOLEAN : Restart(openFails)

Spec == Init /\ [][Next]_vars

(***************************************************************************)
(* The pricing resolver and the cost calculator on their own: every step   *)
(* resolves the pricing of one model under one override table and prices   *)
(* one token tuple with it.                                                *)
(***************************************************************************)
MaxTokens == 2000

MaxFallback == 2500

CardX == Card(1000, 2000, 100, 500)

CardY == Card(7000, 9000, 10, 20)

CardFree == Card(0, 0, 0, 0)

\* override tables of a configuration file, in the order of their keys
OverrideTables ==
    { <<>>,
      <<Entry(SonnetBare, CardX)>>,
      <<Entry(SonnetFull, CardX)>>,
      <<Entry(MyModelBare, CardY)>>,
      <<Entry(MyModelBare, CardFree), Entry(SonnetFull, CardY)>>,
      <<Entry(Gpt5Bare, CardY), Entry(MyModelFull, CardX)>> }

IncomingModels ==
    Keys(DEFAULT_PRICING) \cup
    { SonnetBedrock, SonnetBare, Gpt5Bare, MyModelFull, MyModelBare, LlamaFull, UnknownStr }

TokenCounts == {0, 1, MaxTokens}

TokenTuples ==
    { Tokens(i, o, cr, cw) : i \in TokenCounts, o \in TokenCounts,
                             cr \in {0, MaxTokens}, cw \in {0, 1} }

FallbackCosts == {Null, Some(0), Some(1), Some(MaxFallback)}

PriceRequests ==
    { [op |-> "price?", overrides |-> overrides, model |-> model, tokens |-> tokens,
       fallback |-> fallback] :
        overrides \in OverrideTables, model \in IncomingModels,
        tokens \in TokenTuples, fallback \in FallbackCosts }

\* the configuration is read, the model's pricing resolved and the cost computed
PriceStep ==
    /\ ret.op = "price?"
    /\ LET cfg     == getConfig(RawConfig(Null, Null, NoToast, ret.overrides), 0)
           pricing == getPricing(ret.model, cfg.pricing)
       IN ret' = [op |-> "price", overrides |-> ret.overrides, model |-> ret.model,
                  tokens |-> ret.tokens, fallback |-> ret.fallback, pricing |-> pricing,
                  cost |-> calculateCost(ret.tokens, pricing, ret.fallback)]
    /\ UNCHANGED <<store, config, sessionStats, processedMessages, lastToastTime,
                   messagesSinceToast, costSinceToast, now, active, sent, writers, awaiting>>

InitPricing == InitPlugin /\ ret \in PriceRequests

SpecPricing == InitPricing /\ [][PriceStep]_vars

(***************************************************************************)
(* The table on its own: any client of the database file (this plugin, or  *)
(* the plugin of another process sharing the file) inserts any row.        *)
(***************************************************************************)
MaxRowIds == 3

MaxStoreMessages == 2

OtherHost == <<"o","t","h","e","r">>

\* two payloads that differ in every column but the keys
StoreRows ==
    { Row(id, "s1", m, SonnetFull, ExtractProvider(SonnetFull),
          Tokens(1000, 500, 0, 0), Some(7000), toISOString(T0), Hostname) :
        id \in 1..MaxRowIds, m \in 1..MaxStoreMessages }
    \cup
    { Row(id, "s2", m, Gpt5Bare, ExtractProvider(Gpt5Bare),
          Tokens(2000, 0, 100, 0), Null, toISOString(PlusMs(T0, 1)), OtherHost) :
        id \in 1..MaxRowIds, m \in 1..MaxStoreMessages }

DbInsert(record, dbError) ==
    /\ LET res == insert(store, record, dbError)
       IN /\ store' = res.rows
          /\ ret' = [op |-> "insert", record |-> record, error |-> dbError, ok |-> res.ok]
    /\ UNCHANGED <<config, sessionStats, processedMessages, lastToastTime,
                   messagesSinceToast, costSinceToast, now, active, sent, writers, awaiting>>

DbHasMessage(messageId) ==
    /\ ret' = [op |-> "hasMessage", messageId |-> messageId,
               found |-> hasMessage(store, messageId)]
    /\ UNCHANGED <<store, config, sessionStats, processedMessages, lastToastTime,
                   messagesSinceToast, costSinceToast, now, active, sent, writers, awaiting>>

NextStore ==
    \/ \E record \in StoreRows, dbError \in BOOLEAN : DbInsert(record, dbError)
    \/ \E messageId \in 1..MaxStoreMessages : DbHasMessage(messageId)

SpecStore == Init /\ [][NextStore]_vars

(***************************************************************************)
(* The globalusage tool over a table that is already filled.  Each of the  *)
(* three specifications below starts from every table of a few rows that   *)
(* differ in the columns one part of the query reads, and runs the tool.   *)
(***************************************************************************)
\* rows 1..n of the given payloads: payloads[i] gives the columns of row i
TableOf(payloads) ==
    [i \in 1..Len(payloads) |->
        Row(i, payloads[i].session, i, payloads[i].model,
            ExtractProvider(payloads[i].model), payloads[i].tokens,
            payloads[i].cost, payloads[i].created, payloads[i].machine)]

Payload(session, model, tokens, cost, created, machine) ==
    [session |-> session, model |-> model, tokens |-> tokens, cost |-> cost,
     created |-> created, machine |-> machine]

TablesOver(payloads, maxRows) ==
    { TableOf(f) : f \in UNION { [1..n -> payloads] : n \in 0..maxRows } }

\* --- folding: rows that differ in session, model, tokens and cost
MaxAggRows == 2

AggPayloads ==
    { Payload(sid, model, tokens, cost, toISOString(T0), Hostname) :
        sid \in SessionIds, model \in {SonnetFull, Gpt5Full},
        tokens \in {Tokens(1000, 500, 0, 0), Tokens(2000, 0, 0, 0)},
        cost \in {Null, Some(0), Some(10000000)} }

InitAgg ==
    /\ store \in TablesOver(AggPayloads, MaxAggRows)
    /\ config = getConfig(DefaultRawConfig, 0)
    /\ now = T0
    /\ InitMemory
    /\ ret = RetVoid

NextAgg ==
    \E all \in BOOLEAN : GlobalUsageTool(all, all, Null)

SpecAgg == InitAgg /\ [][NextAgg]_vars

\* --- windows: a zone, a query instant, and rows created at the starts of the
\* instant's local day and local week and one millisecond before them
MaxWindowRows == 2

MaxWindowDays == 3

\* minutes east of UTC: UTC, Los Angeles (PST), Kolkata
TzOffsets == {0, -480, 330}

\* Friday 2024-03-01, so that the days that follow reach back to Monday
\* 2024-02-26 across the end of the month
FirstWindowDay == MakeDay(2024, 2, 1)

WindowDays == FirstWindowDay .. (FirstWindowDay + MaxWindowDays)

\* the instant whose local reading in the zone is 00:00:00.000 of local day d
LocalMidnight(d, tz) == NormDate(d, 0 - tz * MinuteMs)

\* the local day number of an instant
LocalDay(t, tz) == NormDate(t.day, t.ms + tz * MinuteMs).day

\* the Monday on or before day d (day 0, 1970-01-01, is a Thursday)
MondayOf(d) == d - ((d + 3) % 7)

WindowNows(tz) ==
    { PlusMs(LocalMidnight(d, tz), k) : d \in WindowDays, k \in {0, 1, DayMs - 1} }

WindowPayloads(t, tz) ==
    { Payload("s1", SonnetFull, Tokens(1000, 500, 0, 0), Null,
              toISOString(PlusMs(LocalMidnight(d, tz), k)), Hostname) :
        d \in {LocalDay(t, tz), MondayOf(LocalDay(t, tz))}, k \in {-1, 0} }

InitWindow ==
    /\ \E tz \in TzOffsets :
        /\ config = getConfig(DefaultRawConfig, tz)
        /\ now \in WindowNows(tz)
        /\ store \in TablesOver(WindowPayloads(now, tz), MaxWindowRows)
    /\ InitMemory
    /\ ret = RetVoid

NextWindow ==
    \E all \in BOOLEAN : GlobalUsageTool(all, all, Null)

SpecWindow == InitWindow /\ [][NextWindow]_vars

\* --- the model filter: rows that differ in model, and a filter
MaxFilterRows == 2

FilterModels == {SonnetFull, OpusFull, Gpt5Full, Gpt5Bare}

FilterPayloads ==
    { Payload("s1", model, Tokens(1000, 500, 0, 0), Null, toISOString(T0), Hostname) :
        model \in FilterModels }

ModelFilters ==
    { Null, Some(<<>>),
      Some(<<"s","o","n","n","e","t">>), Some(<<"S","O","N","N","E","T">>),
      Some(<<"g","p","t","-","5">>), Some(<<"o","p","e","n","a","i">>),
      Some(<<"g","p","t","_","5">>), Some(<<"a","%","5">>) }

InitFilter ==
    /\ store \in TablesOver(FilterPayloads, MaxFilterRows)
    /\ config = getConfig(DefaultRawConfig, 0)
    /\ now = T0
    /\ InitMemory
    /\ ret = RetVoid

NextFilter ==
    \E filter \in ModelFilters : GlobalUsageTool(FALSE, FALSE, filter)

SpecFilter == InitFilter /\ [][NextFilter]_vars

\* --- the range: rows of this machine and of another one, created at the
\* start of the query's day, at the end of the range and one millisecond
\* before each
MaxRangeRows == 2

RangeInstants ==
    { PlusMs(d, k) : d \in {Date(T0.day, 0), Date(MakeDay(2100, 0, 1), 0)}, k \in {-1, 0} }

RangePayloads ==
    { Payload(w.session, SonnetFull, Tokens(1000, 500, 0, 0), Some(7000),
              toISOString(t), w.machine) :
        w \in { [session |-> "s1", machine |-> Hostname],
                [session |-> "s2", machine |-> Hostname],
                [session |-> "s2", machine |-> OtherHost] },
        t \in RangeInstants }

InitRange ==
    /\ store \in TablesOver(RangePayloads, MaxRangeRows)
    /\ config = getConfig(DefaultRawConfig, 0)
    /\ now = T0
    /\ InitMemory
    /\ ret = RetVoid

NextRange ==
    \E all \in BOOLEAN : GlobalUsageTool(all, all, Null)

SpecRange == InitRange /\ [][NextRange]_vars

(***************************************************************************)
(* One lifetime of the plugin under each toast policy: messages of known   *)
(* and of unknown cost arrive while the clock advances by minutes.         *)
(***************************************************************************)
MaxSessionMessages == 4

MaxWaits == 2

\* the clock advances by one minute at a time
WaitMs == 60 * 1000

LocalLlama == ModelObject(Some(<<"l","o","c","a","l">>), Some(<<"l","l","a","m","a">>))

\* a model the default table prices, and a model no table prices whose messages
\* come with no cost, with a positive cost and with a cost of zero
SessionShapes ==
    << [model |-> ModelString(SonnetFull), tokens |-> TokensA, cost |-> Some(7000)],
       [model |-> LocalLlama, tokens |-> TokensB, cost |-> Null],
       [model |-> LocalLlama, tokens |-> TokensA, cost |-> Some(7000)],
       [model |-> LocalLlama, tokens |-> TokensB, cost |-> Some(0)] >>

SessionShapeOf(id) == SessionShapes[((id - 1) % Len(SessionShapes)) + 1]

SessionMessages ==
    { Event("message.updated", "assistant", TRUE, Some(SessionShapeOf(id).tokens), id,
            IF id % 4 = 0 THEN "s2" ELSE "s1", SessionShapeOf(id).model,
            SessionShapeOf(id).cost) : id \in 1..MaxSessionMessages }

\* toast sections of a configuration file: every trigger, one the code does not
\* know, switched on and off, with thresholds two messages, 0.01 $ and a minute;
\* and trigger "messages" with intervals of one and of three messages
ToastConfigs ==
    { RawToast(Some(enabled), Some(trigger), Some(2), Some(10000000), Some(1)) :
        enabled \in BOOLEAN, trigger \in {"messages", "cost", "time", "tokens"} }
    \cup
    { RawToast(Some(TRUE), Some("messages"), Some(n), Null, Null) : n \in {1, 3} }

\* time passes between two events
Wait ==
    /\ ElapsedMs(T0, now) < MaxWaits * WaitMs
    /\ now' = PlusMs(now, WaitMs)
    /\ sent' = <<>>
    /\ ret' = RetVoid
    /\ UNCHANGED <<store, config, sessionStats, processedMessages, lastToastTime,
                   messagesSinceToast, costSinceToast, active, writers, awaiting>>

InitSession ==
    /\ store = <<>>
    /\ \E toast \in ToastConfigs : config = getConfig(RawConfig(Null, Null, toast, <<>>), 0)
    /\ now = T0
    /\ InitMemory
    /\ ret = RetVoid

NextSession ==
    \/ \E event \in SessionMessages, dbError \in BOOLEAN : OnEvent(event, dbError)
    \/ Wait

SpecSession == InitSession /\ [][NextSession]_vars

(***************************************************************************)
(* Two processes run the plugin on one database file.  Inside a process    *)
(* the handler runs from hasMessage to insert without yielding; between    *)
(* two processes the two statements interleave, so each handler is split   *)
(* in two steps: the guard with the existence check, and the rest.         *)
(***************************************************************************)
MaxWriterMessages == 2

Writers == {"w1", "w2"}

WriterMessages ==
    { Event("message.updated", "assistant", TRUE, Some(ShapeOf(id).tokens), id,
            "s1", ShapeOf(id).model, ShapeOf(id).cost) : id \in 1..MaxWriterMessages }

\* the closure state of a plugin that has just started, at the top of its handler
FreshWriter ==
    [pc |-> "idle", event |-> Null, sessionStats |-> <<>>, processedMessages |-> {},
     lastToastTime |-> T0, messagesSinceToast |-> 0, costSinceToast |-> 0,
     sent |-> <<>>, error |-> FALSE]

\* the closure state of writer w, with the table as it is now
WriterState(w) ==
    [store |-> store, sessionStats |-> writers[w].sessionStats,
     processedMessages |-> writers[w].processedMessages,
     lastToastTime |-> writers[w].lastToastTime,
     messagesSinceToast |-> writers[w].messagesSinceToast,
     costSinceToast |-> writers[w].costSinceToast, sent |-> <<>>]

\* writer w back at the top of its handler with the closure state post
WriterDone(post, error) ==
    [pc |-> "idle", event |-> Null, sessionStats |-> post.sessionStats,
     processedMessages |-> post.processedMessages,
     lastToastTime |-> post.lastToastTime,
     messagesSinceToast |-> post.messagesSinceToast,
     costSinceToast |-> post.costSinceToast, sent |-> post.sent, error |-> error]

\* the event passes the guard and the existence check: the handler goes on to
\* build the record and insert it
ReachesInsert(st, event) ==
    /\ event.type = "message.updated"
    /\ event.role = "assistant"
    /\ event.completed
    /\ ~IsNull(event.tokens)
    /\ event.id \notin st.processedMessages
    /\ ~hasMessage(st.store, event.id)

\* writer w receives an event and runs its handler up to db.hasMessage
WriterCheck(w, event) ==
    /\ writers[w].pc = "idle"
    /\ IF ReachesInsert(WriterState(w), event)
       THEN writers' = [writers EXCEPT ![w].pc = "insert", ![w].event = Some(event),
                                       ![w].sent = <<>>, ![w].error = FALSE]
       ELSE writers' = [writers EXCEPT ![w] =
                          WriterDone(HandleEvent(WriterState(w), config, event, FALSE, now),
                                     FALSE)]
    /\ UNCHANGED <<store, config, sessionStats, processedMessages, lastToastTime,
                   messagesSinceToast, costSinceToast, now, active, sent, ret, awaiting>>

\* writer w runs the rest of its handler: the insert and what follows it
WriterInsert(w, dbError) ==
    /\ writers[w].pc = "insert"
    /\ LET post == RecordMessage(WriterState(w), config, Val(writers[w].event), dbError, now)
       IN /\ store' = post.store
          /\ writers' = [writers EXCEPT ![w] = WriterDone(post, dbError)]
    /\ UNCHANGED <<config, sessionStats, processedMessages, lastToastTime,
                   messagesSinceToast, costSinceToast, now, active, sent, ret, awaiting>>

InitWriters ==
    /\ store = <<>>
    /\ config = getConfig(DefaultRawConfig, 0)
    /\ now = T0
    /\ sessionStats = <<>>
    /\ processedMessages = {}
    /\ lastToastTime = now
    /\ messagesSinceToast = 0
    /\ costSinceToast = 0
    /\ active = TRUE
    /\ sent = <<>>
    /\ ret = RetVoid
    /\ writers = [w \in Writers |-> FreshWriter]
    /\ awaiting = 0

NextWriters ==
    \/ \E w \in Writers, event \in WriterMessages : WriterCheck(w, event)
    \/ \E w \in Writers, dbError \in BOOLEAN : WriterInsert(w, dbError)

SpecWriters == InitWriters /\ [][NextWriters]_vars

(***************************************************************************)
(* The handler and the tools on the one thread of the host's event loop.   *)
(* A handler runs without yielding up to the await of its usage toast      *)
(* (insert, cache update and counters are one step); while it is suspended *)
(* there the host runs other handlers and the tools; when the toast is     *)
(* delivered the handler resumes with resetToastTracking.  The await of    *)
(* the error toast is followed by return only, and the await in the usage  *)
(* tool comes before its first read, so neither splits a step.             *)
(***************************************************************************)
MaxAwaitMessages == 3

AwaitMessages ==
    { Event("message.updated", "assistant", TRUE, Some(SessionShapeOf(id).tokens), id,
            IF id % 3 = 0 THEN "s2" ELSE "s1", SessionShapeOf(id).model,
            SessionShapeOf(id).cost) : id \in 1..MaxAwaitMessages }

\* toasts after every message and after every second message
AwaitToastConfigs ==
    { RawToast(Some(TRUE), Some("messages"), Some(n), Null, Null) : n \in {1, 2} }

\* the host delivers an event: the handler runs to its end or to the await of
\* its usage toast
EventToAwait(event, dbError) ==
    /\ active
    /\ LET post == HandleEventToAwait(PluginState, config, event, dbError, now)
       IN /\ store' = post.store
          /\ sessionStats' = post.sessionStats
          /\ processedMessages' = post.processedMessages
          /\ lastToastTime' = post.lastToastTime
          /\ messagesSinceToast' = post.messagesSinceToast
          /\ costSinceToast' = post.costSinceToast
          /\ sent' = post.sent
          /\ awaiting' = IF SuspendsAtToast(post) THEN awaiting + 1 ELSE awaiting
    /\ ret' = RetVoid
    /\ UNCHANGED <<config, now, active, writers>>

\* a usage toast is delivered: its handler resumes and resets the counters
ToastDelivered ==
    /\ awaiting > 0
    /\ LET post == resetToastTracking(PluginState, now)
       IN /\ lastToastTime' = post.lastToastTime
          /\ messagesSinceToast' = post.messagesSinceToast
          /\ costSinceToast' = post.costSinceToast
    /\ awaiting' = awaiting - 1
    /\ sent' = <<>>
    /\ ret' = RetVoid
    /\ UNCHANGED <<store, config, sessionStats, processedMessages, now, active, writers>>

InitAwait ==
    /\ store = <<>>
    /\ \E toast \in AwaitToastConfigs :
           config = getConfig(RawConfig(Null, Null, toast, <<>>), 0)
    /\ now = T0
    /\ InitMemory
    /\ ret = RetVoid

NextAwait ==
    \/ \E event \in AwaitMessages, dbError \in BOOLEAN : EventToAwait(event, dbError)
    \/ ToastDelivered
    \/ \E sessionId \in {Null, Some("s1"), Some("s2")} : UsageTool(sessionId)
    \/ GlobalUsageTool(FALSE, FALSE, Null)
    \/ Wait

SpecAwait == InitAwait /\ [][NextAwait]_vars

(***************************************************************************)
(* Properties                                                              *)
(***************************************************************************)
SessionRows(rows, sessionId) == SelectSeq(rows, LAMBDA r : r.session_id = sessionId)

RECURSIVE SumTokens(_)
SumTokens(rows) == IF rows = <<>> THEN 0 ELSE RowTokens(Head(rows)) + SumTokens(Tail(rows))

UniqueMessageIds ==
    \A i, j \in 1..Len(store) : i # j => store[i].message_id # store[j].message_id

\* the step inserted a row whose message_id was stored already, and the
\* statement did not throw
DuplicateInsertStep ==
    /\ ret'.op = "insert"
    /\ ~ret'.error
    /\ hasMessage(store, ret'.record.message_id)

\* C1: under any sequence of inserts the table holds at most one row per
\* message_id, and an insert whose message_id is stored already (whatever its
\* other columns) leaves the table as it was, so the first row stays, and
\* returns true.
C1_InsertIdempotent ==
    /\ []UniqueMessageIds
    /\ [][DuplicateInsertStep => (store' = store /\ ret'.ok)]_vars

\* a row of another payload and another id was offered for a stored message_id
\* and absorbed
C1_Witness ==
    /\ ret.op = "insert"
    /\ ~ret.error
    /\ ret.ok
    /\ \E i \in 1..Len(store) :
        /\ store[i].message_id = ret.record.message_id
        /\ store[i].id # ret.record.id
        /\ store[i].session_id # ret.record.session_id

\* the message has rows of this session that this process did not write: they
\* are of a process that ran before a restart
CacheWasLost(sessionId) ==
    \E i \in 1..Len(store) :
        /\ store[i].session_id = sessionId
        /\ store[i].message_id \notin processedMessages

\* C2: a usage query made after the cache was lost reports, for its session,
\* the sum of the tokens of all the rows stored for that session.
C2_RebuiltTotalsMatchStore ==
    (ret.op = "usage" /\ ret.text = "stats" /\ CacheWasLost(ret.session))
        => ret.stats.totalTokens = SumTokens(SessionRows(store, ret.session))

\* the step handled a completed assistant message, new to the process and to
\* the table, whose INSERT threw
FailedInsertStep(event) ==
    /\ event.id \notin processedMessages
    /\ ~hasMessage(store, event.id)
    /\ OnEvent(event, TRUE)

\* C3 as stated: after a failed insert one error toast is sent and the
\* session's cached statistics include the message.
C3_FailedInsertStillCached ==
    [][\A event \in CompletedMessages :
        FailedInsertStep(event) =>
            /\ sent' = <<SaveFailedToast>>
            /\ event.sessionID \in DOMAIN sessionStats'
            /\ sessionStats'[event.sessionID].totalTokens =
                 (IF event.sessionID \in DOMAIN sessionStats
                  THEN sessionStats[event.sessionID].totalTokens ELSE 0)
                 + TotalOf(NormTokens(Val(event.tokens)))]_vars

\* C3 as amended: after a failed insert exactly one error toast is sent and
\* nothing else changes: the message is in neither the table, the session
\* cache, the processed set nor the toast counters.
C3_FailedInsertLeavesCache ==
    [][\A event \in CompletedMessages :
        FailedInsertStep(event) =>
            /\ sent' = <<SaveFailedToast>>
            /\ UNCHANGED <<store, sessionStats, processedMessages, lastToastTime,
                           messagesSinceToast, costSinceToast, writers, awaiting>>]_vars

\* an insert has just failed in a process whose cache holds a session
C3_Witness ==
    /\ sent = <<SaveFailedToast>>
    /\ sessionStats # <<>>
    /\ \E id \in MessageIds : ~hasMessage(store, id) /\ id \notin processedMessages

\* a key or a model without a provider prefix
IsBare(name) == Len(Split(name)) = 1

\* C4: an override keyed by a bare model name is the pricing of every incoming
\* provider/name model (that has no override of its own full key).
C4_BareOverrideResolves ==
    ret.op = "price" =>
        \A i \in 1..Len(ret.overrides) :
            ( /\ IsBare(ret.overrides[i].key)
              /\ ~IsBare(ret.model)
              /\ Last(Split(ret.model)) = ret.overrides[i].key
              /\ ret.model \notin Keys(ret.overrides) )
            => ret.pricing = Some(ret.overrides[i].pricing)

\* C5: with a rate card resolved the cost is the sum over the four categories
\* of count * rate (nano-dollars), whatever the host's cost.
C5_RateCardCost ==
    (ret.op = "price" /\ ~IsNull(ret.pricing)) =>
        ret.cost = Some(ret.tokens.input * Val(ret.pricing).input
                        + ret.tokens.output * Val(ret.pricing).output
                        + ret.tokens.cacheRead * Val(ret.pricing).cacheRead
                        + ret.tokens.cacheWrite * Val(ret.pricing).cacheWrite)

\* a card was resolved, the host gave a positive cost, and the computed cost is zero
C5_Witness ==
    /\ ret.op = "price"
    /\ ~IsNull(ret.pricing)
    /\ ~IsNull(ret.fallback) /\ Val(ret.fallback) > 0
    /\ TotalOf(ret.tokens) > 0
    /\ ret.cost = Some(0)

\* C6: with no rate card resolved the cost is the host's cost when that is
\* there and positive, and unknown when it is zero or missing.
C6_FallbackCost ==
    (ret.op = "price" /\ IsNull(ret.pricing)) =>
        /\ (~IsNull(ret.fallback) /\ Val(ret.fallback) > 0) => ret.cost = ret.fallback
        /\ (IsNull(ret.fallback) \/ ret.fallback = Some(0)) => IsNull(ret.cost)

\* no card, a host cost of zero, and the cost is unknown
C6_Witness ==
    /\ ret.op = "price"
    /\ IsNull(ret.pricing)
    /\ ret.fallback = Some(0)
    /\ IsNull(ret.cost)

\* the periods a globalusage result reports
PeriodsOf(r) ==
    {r.today, r.week, r.month}
    \cup (IF IsNull(r.year) THEN {} ELSE {Val(r.year)})
    \cup (IF IsNull(r.allTime) THEN {} ELSE {Val(r.allTime)})

RECURSIVE SumKnownCosts(_)
SumKnownCosts(rows) ==
    IF rows = <<>> THEN 0
    ELSE (IF IsNull(Head(rows).cost) THEN 0 ELSE Val(Head(rows).cost))
         + SumKnownCosts(Tail(rows))

\* C7: every period of a globalusage result has, over the rows its range
\* query matched: tokens = the sum of the four token columns, cost = the sum
\* of the costs that are known (0 when none is), messages = the number of
\* rows, sessions = the number of distinct session ids.
C7_AggregateOfMatched ==
    ret.op = "globalusage" =>
        \A p \in PeriodsOf(ret) :
            /\ p.tokens = SumTokens(p.records)
            /\ p.cost = SumKnownCosts(p.records)
            /\ p.messages = Len(p.records)
            /\ p.sessions = Cardinality({p.records[i].session_id : i \in 1..Len(p.records)})

\* the two records of the specification's example, in one session
C7_Witness ==
    /\ ret.op = "globalusage"
    /\ ret.today.tokens = 3500
    /\ ret.today.cost = 10000000
    /\ ret.today.messages = 2
    /\ ret.today.sessions = 1
    /\ \E i \in 1..2 : IsNull(ret.today.records[i].cost)

\* t is not before u
DateGeq(t, u) == t.day > u.day \/ (t.day = u.day /\ t.ms >= u.ms)

\* the rows of this machine created at or after the instant
RowsSince(start) ==
    { r \in RowsOf(store) :
        r.machine_id = config.machineId /\ DateGeq(ParseISO(r.created_at), start) }

\* C8: the today window starts at 00:00:00.000 local time of the day of the
\* query and the week window at 00:00:00.000 local time of the Monday on or
\* before it; each holds exactly the rows created at or after its start.
C8_WindowStarts ==
    ret.op = "globalusage" =>
        LET today  == LocalDay(ret.at, config.tz)
            dayAt  == LocalMidnight(today, config.tz)
            weekAt == LocalMidnight(MondayOf(today), config.tz)
        IN /\ ParseISO(ret.today.start) = dayAt
           /\ ParseISO(ret.week.start) = weekAt
           /\ RowsOf(ret.today.records) = RowsSince(dayAt)
           /\ RowsOf(ret.week.records) = RowsSince(weekAt)

\* a query on a Monday in a zone away from UTC: the row created at local
\* midnight is in today and in the week, the row of one millisecond before
\* is in neither
C8_Witness ==
    /\ ret.op = "globalusage"
    /\ config.tz # 0
    /\ MondayOf(LocalDay(ret.at, config.tz)) = LocalDay(ret.at, config.tz)
    /\ \E r \in RowsOf(store) :
        /\ ParseISO(r.created_at) = LocalMidnight(LocalDay(ret.at, config.tz), config.tz)
        /\ r \in RowsOf(ret.today.records)
        /\ r \in RowsOf(ret.week.records)
    /\ \E r \in RowsOf(store) :
        /\ PlusMs(ParseISO(r.created_at), 1) = LocalMidnight(LocalDay(ret.at, config.tz), config.tz)
        /\ r \notin RowsOf(ret.today.records)
        /\ r \notin RowsOf(ret.week.records)

\* sub occurs in s as it is written
Contains(s, sub) ==
    \E i \in 1..(Len(s) - Len(sub) + 1) : SubSeq(s, i, i + Len(sub) - 1) = sub

\* sub occurs in s, ASCII letters compared without regard to case
ContainsFolded(s, sub) ==
    \E i \in 1..(Len(s) - Len(sub) + 1) :
        \A k \in 1..Len(sub) : Fold(s[i + k - 1]) = Fold(sub[k])

HasWildcard(filter) == \E k \in 1..Len(filter) : filter[k] \in {"%", "_"}

\* C9 as stated: with a model filter the matched rows are exactly the rows
\* whose model contains the filter, letter case included.
C9_FilterCaseSensitive ==
    (ret.op = "globalusage" /\ ~IsNull(ret.args.model)) =>
        RowsOf(ret.today.records) =
            { r \in RowsOf(store) : Contains(r.model, Val(ret.args.model)) }

\* C9 as amended: with a model filter the matched rows include every row
\* whose model contains the filter, ASCII letters compared without regard to
\* case, and are exactly those rows when the filter holds neither % nor _
\* (which match any run of characters and any one character).
C9_FilterCaseInsensitive ==
    (ret.op = "globalusage" /\ ~IsNull(ret.args.model)) =>
        LET matched  == RowsOf(ret.today.records)
            literal  == { r \in RowsOf(store) : ContainsFolded(r.model, Val(ret.args.model)) }
        IN  /\ literal \subseteq matched
            /\ ~HasWildcard(Val(ret.args.model)) => matched = literal

\* the filter SONNET matched anthropic/claude-sonnet-4-5 and left openai/gpt-5 out
C9_Witness ==
    /\ ret.op = "globalusage"
    /\ ret.args.model = Some(<<"S","O","N","N","E","T">>)
    /\ Len(ret.today.records) = 1
    /\ ret.today.records[1].model = SonnetFull
    /\ \E r \in RowsOf(store) : r.model = Gpt5Full

\* C10: the provider of a stored row is what precedes the first "/" of its
\* model, and "unknown" when the model has no "/".
C10_ProviderColumn ==
    \A i \in 1..Len(store) :
        /\ ~IsBare(store[i].model) => store[i].provider = Split(store[i].model)[1]
        /\ IsBare(store[i].model) => store[i].provider = UnknownStr

\* every row of the table before the step is the same row, at the same place,
\* after it
RowsKept ==
    /\ Len(store') >= Len(store)
    /\ \A i \in 1..Len(store) : store'[i] = store[i]

\* C11: across events, queries and restarts a stored row is never deleted and
\* none of its columns changes; the table only grows.
C11_WriteOnce == [][RowsKept]_vars

\* a /usage query after a restart, over a table that kept its two rows
C11_Witness ==
    /\ Len(store) >= 2
    /\ processedMessages = {}
    /\ ret.op = "usage"
    /\ ret.text = "stats"

\* the step is a start of the plugin at which the database did not open
FailedOpenStep == \E i \in 1..Len(sent') : sent'[i] = OpenFailedToast

\* C12: a start at which the database cannot be opened sends exactly one error
\* toast and returns no hooks: until the next start no event is handled, no
\* tool runs and nothing is written.
C12_OpenFailureDisables ==
    [][ /\ (active /\ ~active') => FailedOpenStep
        /\ FailedOpenStep => (~active' /\ Len(sent') = 1 /\ sent'[1].variant = "error")
        /\ ~active =>
              /\ store' = store
              /\ sessionStats' = <<>>
              /\ processedMessages' = {}
              /\ messagesSinceToast' = 0
              /\ costSinceToast' = 0
              /\ ret' = RetVoid
              /\ \A i \in 1..Len(sent') : sent'[i] = OpenFailedToast ]_vars

\* the database failed to open at a restart of a plugin that had stored a row
C12_Witness ==
    /\ ~active
    /\ sent = <<OpenFailedToast>>
    /\ Len(store) >= 1

\* C13: with the toast policy switched off no usage toast is ever sent,
\* whatever the trigger, the thresholds, the messages and the time elapsed.
C13_DisabledNeverFires ==
    ~config.toast.enabled => \A i \in 1..Len(sent) : sent[i].variant # "info"

\* switched off with trigger "cost": messages and cost are past their
\* thresholds, a minute has passed, and nothing was sent
C13_Witness ==
    /\ ~config.toast.enabled
    /\ config.toast.trigger = "cost"
    /\ messagesSinceToast >= config.toast.messagesInterval
    /\ costSinceToast >= config.toast.costThreshold
    /\ ElapsedMs(lastToastTime, now) >= config.toast.timeIntervalMinutes * 60 * 1000
    /\ sent = <<>>

\* the step sent a usage toast
FiredStep == \E i \in 1..Len(sent') : sent'[i].variant = "info"

\* the step stored a message
RecordedStep == Len(store') = Len(store) + 1

\* the counter of the configured trigger, with the message just stored counted
\* in, is at its threshold
ModeReached ==
    LET cost == Last(store').cost
        messages == messagesSinceToast + 1
        spent == costSinceToast + (IF IsNull(cost) THEN 0 ELSE Val(cost))
    IN /\ config.toast.enabled
       /\ \/ config.toast.trigger = "messages" /\ messages >= config.toast.messagesInterval
          \/ config.toast.trigger = "cost" /\ spent >= config.toast.costThreshold
          \/ /\ config.toast.trigger = "time"
             /\ ElapsedMs(lastToastTime, now) >= config.toast.timeIntervalMinutes * 60 * 1000

\* C17: a usage toast is sent exactly when a message is stored and the counter
\* of the configured trigger is at its threshold, whatever the two other
\* counters are, and the step that sends it resets all three counters.
C17_FireResetsAll ==
    [][ /\ FiredStep => /\ RecordedStep
                        /\ ModeReached
                        /\ messagesSinceToast' = 0
                        /\ costSinceToast' = 0
                        /\ lastToastTime' = now
        /\ (RecordedStep /\ ModeReached) => FiredStep
        /\ (RecordedStep /\ ~FiredStep) =>
              /\ messagesSinceToast' = messagesSinceToast + 1
              /\ lastToastTime' = lastToastTime ]_vars

\* trigger "cost": a toast was sent after the clock had advanced, and all
\* three counters are reset
C17_Witness ==
    /\ config.toast.trigger = "cost"
    /\ sent = <<UsageToast>>
    /\ Len(store) >= 2
    /\ now # T0
    /\ lastToastTime = now
    /\ messagesSinceToast = 0
    /\ costSinceToast = 0

\* the rows of a session that name a model
ModelRows(rows, sessionId, model) ==
    SelectSeq(rows, LAMBDA r : r.session_id = sessionId /\ r.model = model)

\* C19: a message of unknown cost is stored with cost unknown and adds to the
\* tokens and the message count of its session but not to the cost; the cost
\* of a model is unknown exactly when every row of the model has unknown cost
\* and the sum of the known ones otherwise; the statistics kept while
\* ingesting equal the statistics rebuilt from the session's rows.
C19_UnknownCostFolded ==
    /\ \A i \in 1..Len(store) :
          (store[i].model = <<"l","o","c","a","l","/","l","l","a","m","a">>) =>
              (IsNull(store[i].cost) \/ store[i].cost = Some(7000))
    /\ \A s \in DOMAIN sessionStats :
          LET stats   == sessionStats[s]
              rows    == SessionRows(store, s)
              rebuilt == buildSessionStats(getSessionStats(store, s), now)
          IN /\ stats.totalTokens = SumTokens(rows)
             /\ stats.totalCost = SumKnownCosts(rows)
             /\ stats.messageCount = Len(rows)
             /\ DOMAIN stats.byModel = {rows[i].model : i \in 1..Len(rows)}
             /\ \A m \in DOMAIN stats.byModel :
                   LET mrows == ModelRows(store, s, m)
                   IN stats.byModel[m].cost =
                        IF \A i \in 1..Len(mrows) : IsNull(mrows[i].cost) THEN Null
                        ELSE Some(SumKnownCosts(mrows))
             /\ stats.totalTokens = rebuilt.totalTokens
             /\ stats.totalCost = rebuilt.totalCost
             /\ stats.messageCount = rebuilt.messageCount
             /\ stats.byModel = rebuilt.byModel

\* session s1 holds three messages, two of them of local/llama of which one
\* has unknown cost, and the model's cost is the one known cost
C19_Witness ==
    /\ "s1" \in DOMAIN sessionStats
    /\ sessionStats["s1"].messageCount = 3
    /\ \E m \in DOMAIN sessionStats["s1"].byModel :
          /\ sessionStats["s1"].byModel[m].cost = Some(7000)
          /\ Len(ModelRows(store, "s1", m)) = 2
          /\ \E i \in 1..Len(store) : store[i].model = m /\ IsNull(store[i].cost)

\* instant a is before instant b
DateLess(a, b) == a.day < b.day \/ (a.day = b.day /\ a.ms < b.ms)

\* the rows this machine wrote at or after the start and before 2100-01-01
OwnRowsInRange(start) ==
    { r \in RowsOf(store) :
        /\ r.machine_id = config.machineId
        /\ ~DateLess(ParseISO(r.created_at), ParseISO(start))
        /\ DateLess(ParseISO(r.created_at), ParseISO(farFuture)) }

\* C14: every period of a globalusage result holds exactly the rows this
\* machine wrote in [start, end), each once, in ascending order of created_at,
\* and its totals and session count are those of these rows alone (every row
\* of the tables holds 1500 tokens).
C14_RangeOfOwnMachine ==
    (ret.op = "globalusage") =>
        \A p \in PeriodsOf(ret) :
            LET own == OwnRowsInRange(p.start)
            IN /\ RowsOf(p.records) = own
               /\ Len(p.records) = Cardinality(own)
               /\ \A i, j \in 1..Len(p.records) :
                     i < j => ~DateLess(ParseISO(p.records[j].created_at),
                                        ParseISO(p.records[i].created_at))
               /\ p.messages = Cardinality(own)
               /\ p.tokens = 1500 * Cardinality(own)
               /\ p.sessions = Cardinality({r.session_id : r \in own})

\* another machine's row, created at the start of today, is left out of today:
\* the one record and the one session are this machine's
C14_Witness ==
    /\ ret.op = "globalusage"
    /\ Len(store) = 2
    /\ store[1].machine_id = OtherHost
    /\ store[1].created_at = toISOString(Date(T0.day, 0))
    /\ ret.today.records = <<store[2]>>
    /\ ret.today.sessions = 1

\* the completed assistant messages whose id is stored but not marked processed
Redeliveries ==
    { e \in CompletedMessages :
        /\ e.id \notin processedMessages
        /\ \E i \in 1..Len(store) : store[i].message_id = e.id }

\* the step marked a stored message as processed
RedeliveredStep ==
    \E id \in processedMessages' \ processedMessages :
        \E i \in 1..Len(store) : store[i].message_id = id

\* C15: an event for a message that is stored but not marked processed (it was
\* stored before a restart) only marks the message processed: no row is
\* written, the cache and the toast counters are as before, nothing is sent.
C15_RedeliveryShortCircuits ==
    /\ [](active =>
            \A e \in Redeliveries, dbError \in BOOLEAN :
                HandleEvent(PluginState, config, e, dbError, now) =
                    [PluginState EXCEPT !.processedMessages = @ \cup {e.id}])
    /\ [][RedeliveredStep =>
             /\ store' = store
             /\ sessionStats' = sessionStats
             /\ messagesSinceToast' = messagesSinceToast
             /\ costSinceToast' = costSinceToast
             /\ lastToastTime' = lastToastTime
             /\ sent' = <<>>]_vars

\* after a restart message 1, stored before it, was delivered again: it is
\* marked processed and the cache is still empty
C15_Witness ==
    /\ active
    /\ \E i \in 1..Len(store) : store[i].message_id = 1
    /\ processedMessages = {1}
    /\ sessionStats = <<>>
    /\ messagesSinceToast = 0

\* C16: every non-empty entry of the cache equals the fold of all stored rows
\* of its session (the entry is seeded from the table when it is created).
C16_CacheSeededFromStore ==
    \A s \in DOMAIN sessionStats :
        sessionStats[s].messageCount # 0 =>
            /\ sessionStats[s].totalTokens = SumTokens(SessionRows(store, s))
            /\ sessionStats[s].totalCost = SumKnownCosts(SessionRows(store, s))
            /\ sessionStats[s].messageCount = Len(SessionRows(store, s))

\* the events the handler has to ignore in the current state: those that are
\* not a completed assistant message with tokens, and the completed messages
\* already marked processed
IgnoredEvents ==
    OtherEvents \cup { e \in CompletedMessages : e.id \in processedMessages }

\* C18: handling an event that is not a completed assistant message with
\* tokens, or whose message is marked processed, changes nothing: the table,
\* the cache, the processed set and the toast counters stay and no toast is
\* sent.
C18_IgnoredEventsChangeNothing ==
    active =>
        \A e \in IgnoredEvents, dbError \in BOOLEAN :
            HandleEvent(PluginState, config, e, dbError, now) = PluginState

\* two messages are stored, cached and marked processed: each of them, and
\* every event of another kind, is ignored from here
C18_Witness ==
    /\ active
    /\ Cardinality(processedMessages) = 2
    /\ Len(store) = 2
    /\ messagesSinceToast = 2
    /\ DOMAIN sessionStats # {}
    /\ sent = <<>>

\* writer w inserted, with no storage error, a message that another process
\* had stored after w's existence check
LateInsertStep(w) ==
    /\ writers[w].pc = "insert"
    /\ writers'[w].pc = "idle"
    /\ ~writers'[w].error
    /\ \E i \in 1..Len(store) : store[i].message_id = Val(writers[w].event).id

\* C20: when two processes both pass the existence check for one message
\* before either inserts, the table ends with one row for the message, the
\* second insert leaves the table as it is and neither process sends the
\* failed-to-save toast.
C20_ConcurrentWritersOneRow ==
    /\ []UniqueMessageIds
    /\ [][\A w \in Writers :
            /\ LateInsertStep(w) =>
                  /\ store' = store
                  /\ writers'[w].sent = <<>>
                  /\ Val(writers[w].event).id \in writers'[w].processedMessages
            /\ (writers[w].pc = "insert" /\ writers'[w].pc = "idle" /\ ~writers'[w].error) =>
                  writers'[w].sent = <<>>]_vars

\* both processes passed the check for message 1 and went through their
\* insert: one row is stored, both count the message, neither sent a toast
C20_Witness ==
    /\ DOMAIN writers = Writers
    /\ Cardinality({i \in 1..Len(store) : store[i].message_id = 1}) = 1
    /\ \A w \in Writers :
          /\ writers[w].pc = "idle"
          /\ 1 \in writers[w].processedMessages
          /\ "s1" \in DOMAIN writers[w].sessionStats
          /\ writers[w].sent = <<>>
          /\ ~writers[w].error

\* C22: a model whose full identifier is a key of the override table resolves
\* to that override's card, and a model of the default table with no override
\* of its key resolves to its default card.
C22_OverrideEntryByEntry ==
    ret.op = "price" =>
        /\ \A i \in 1..Len(ret.overrides) :
              ret.overrides[i].key = ret.model =>
                  ret.pricing = Some(ret.overrides[i].pricing)
        /\ \A i \in 1..Len(DEFAULT_PRICING) :
              (DEFAULT_PRICING[i].key = ret.model /\ ret.model \notin Keys(ret.overrides)) =>
                  ret.pricing = Some(DEFAULT_PRICING[i].pricing)

\* anthropic/claude-sonnet-4-5 is overridden and resolves to the override,
\* while the table also overrides another model
C22_Witness ==
    /\ ret.op = "price"
    /\ ret.model = SonnetFull
    /\ Len(ret.overrides) = 2
    /\ ret.pricing = Some(CardY)
    /\ CardY # DEFAULT_PRICING[1].pricing

\* C27: every message id in processedMessages has a row in the table.
C27_ProcessedAreStored ==
    \A id \in processedMessages : \E i \in 1..Len(store) : store[i].message_id = id

\* message 1 was marked on redelivery after a restart and message 2 after its
\* insert: both are stored, and the cache counts the one inserted
C27_Witness ==
    /\ processedMessages = {1, 2}
    /\ Len(store) = 2
    /\ "s1" \in DOMAIN sessionStats
    /\ sessionStats["s1"].messageCount = 1

\* the toast policy is on with trigger "messages"
MessagesMode == config.toast.enabled /\ config.toast.trigger = "messages"

\* C24: with trigger "messages" and interval N, the counter of messages is the
\* number of messages stored since the start modulo N (so it is below N after
\* every event), a usage toast is sent exactly by the steps that store the
\* N-th, 2N-th, ... message, and a step that stores nothing leaves the counter.
C24_EveryNthMessage ==
    /\ [](MessagesMode =>
            messagesSinceToast = Len(store) % config.toast.messagesInterval)
    /\ [][MessagesMode =>
            /\ FiredStep <=>
                  (RecordedStep /\ Len(store') % config.toast.messagesInterval = 0)
            /\ ~RecordedStep => messagesSinceToast' = messagesSinceToast]_vars

\* interval 2: the fourth message has just been stored and the second toast
\* sent
C24_Witness ==
    /\ MessagesMode
    /\ config.toast.messagesInterval = 2
    /\ Len(store) = 4
    /\ sent = <<UsageToast>>
    /\ messagesSinceToast = 0

\* the completed assistant messages that are neither marked processed nor
\* stored
Unrecorded ==
    { e \in SessionMessages :
        /\ e.id \notin processedMessages
        /\ \A i \in 1..Len(store) : store[i].message_id # e.id }

\* the state a handler leaves, as the next handler finds it
Settled(st) == [st EXCEPT !.sent = <<>>]

\* the number of messages the cache counts for a session
CountOf(stats, sessionId) ==
    IF sessionId \in DOMAIN stats THEN stats[sessionId].messageCount ELSE 0

\* C23: a failed insert leaves the message unmarked and everything but the
\* error toast as it was; when the event comes again and the insert succeeds,
\* the message is stored in one row, marked, and counted once in the cache and
\* in the toast counters; a further delivery changes nothing.
C23_RetryAfterFailure ==
    /\ [](\A e \in Unrecorded :
            LET failed  == HandleEvent(PluginState, config, e, TRUE, now)
                retried == HandleEvent(Settled(failed), config, e, FALSE, now)
                again   == HandleEvent(Settled(retried), config, e, FALSE, now)
                fired   == \E i \in 1..Len(retried.sent) : retried.sent[i] = UsageToast
            IN /\ failed = [PluginState EXCEPT !.sent = <<SaveFailedToast>>]
               /\ Len(retried.store) = Len(store) + 1
               /\ Last(retried.store).message_id = e.id
               /\ retried.processedMessages = processedMessages \cup {e.id}
               /\ CountOf(retried.sessionStats, e.sessionID)
                     = CountOf(sessionStats, e.sessionID) + 1
               /\ retried.sessionStats[e.sessionID].totalTokens
                     = (IF e.sessionID \in DOMAIN sessionStats
                        THEN sessionStats[e.sessionID].totalTokens ELSE 0)
                       + RowTokens(Last(retried.store))
               /\ retried.messagesSinceToast = IF fired THEN 0 ELSE messagesSinceToast + 1
               /\ again = Settled(retried))
    /\ [][(sent' = <<SaveFailedToast>>) =>
             /\ processedMessages' = processedMessages
             /\ store' = store
             /\ sessionStats' = sessionStats]_vars

\* message 1 is stored and counted; the insert of another message has just
\* failed, and that message is neither marked nor stored
C23_Witness ==
    /\ sent = <<SaveFailedToast>>
    /\ processedMessages = {1}
    /\ Len(store) = 1
    /\ messagesSinceToast = 1
    /\ Cardinality(Unrecorded) = MaxSessionMessages - 1

\* the sum over the models of an entry of the four token counts, and of the
\* costs that are known
RECURSIVE SumModelTokens(_, _)
SumModelTokens(byModel, models) ==
    IF models = {} THEN 0
    ELSE LET m == CHOOSE x \in models : TRUE
         IN TotalOf(byModel[m]) + SumModelTokens(byModel, models \ {m})

RECURSIVE SumModelCosts(_, _)
SumModelCosts(byModel, models) ==
    IF models = {} THEN 0
    ELSE LET m == CHOOSE x \in models : TRUE
         IN (IF IsNull(byModel[m].cost) THEN 0 ELSE Val(byModel[m].cost))
            + SumModelCosts(byModel, models \ {m})

\* C26: in every entry of the cache totalTokens is the sum of the four token
\* counts over its models, totalCost is the sum of the models' known costs,
\* and messageCount is the number of messages this process stored for the
\* session.
C26_EntryConsistent ==
    \A s \in DOMAIN sessionStats :
        LET stats == sessionStats[s]
        IN /\ stats.totalTokens = SumModelTokens(stats.byModel, DOMAIN stats.byModel)
           /\ stats.totalCost = SumModelCosts(stats.byModel, DOMAIN stats.byModel)
           /\ stats.messageCount = Len(SessionRows(store, s))
           /\ stats.messageCount >= 1

\* an entry of three messages over two models, with cache tokens and with a
\* message of unknown cost
C26_Witness ==
    /\ "s1" \in DOMAIN sessionStats
    /\ sessionStats["s1"].messageCount = 3
    /\ Cardinality(DOMAIN sessionStats["s1"].byModel) = 2
    /\ \E m \in DOMAIN sessionStats["s1"].byModel : sessionStats["s1"].byModel[m].cacheRead > 0
    /\ \E i \in 1..Len(store) : store[i].session_id = "s1" /\ IsNull(store[i].cost)

\* the rows of a sequence at the positions of a set, in order
RECURSIVE Pick(_, _, _)
Pick(rows, positions, i) ==
    IF i > Len(rows) THEN <<>>
    ELSE (IF i \in positions THEN <<rows[i]>> ELSE <<>>) \o Pick(rows, positions, i + 1)

\* statistics that hold every contribution of each of the rows and nothing
\* else: total tokens, total cost, message count, and for each model its
\* tokens and its cost
ReflectsWhole(stats, rows) ==
    /\ stats.totalTokens = SumTokens(rows)
    /\ stats.totalCost = SumKnownCosts(rows)
    /\ stats.messageCount = Len(rows)
    /\ DOMAIN stats.byModel = {rows[i].model : i \in 1..Len(rows)}
    /\ \A m \in DOMAIN stats.byModel :
          LET ofModel == SelectSeq(rows, LAMBDA r : r.model = m)
          IN /\ TotalOf(stats.byModel[m]) = SumTokens(ofModel)
             /\ stats.byModel[m].cost
                   = (IF \A i \in 1..Len(ofModel) : IsNull(ofModel[i].cost)
                      THEN Null ELSE Some(SumKnownCosts(ofModel)))

\* C21: a usage or globalusage query run while handlers are suspended leaves
\* the table, the cache and the set of processed messages as they were; the
\* statistics usage reports are, for some set of the session's stored rows,
\* all the contributions of each row of the set and none of any other row;
\* the records of every period of globalusage are whole rows of the table.
C21_QueriesSeeWholeRecords ==
    /\ []((ret.op = "usage" /\ ret.text = "stats") =>
            LET rows == SessionRows(store, ret.session)
            IN \E positions \in SUBSET (1..Len(rows)) :
                   ReflectsWhole(ret.stats, Pick(rows, positions, 1)))
    /\ [](ret.op = "globalusage" =>
            \A p \in PeriodsOf(ret) :
                /\ \A i \in 1..Len(p.records) :
                       \E j \in 1..Len(store) : p.records[i] = store[j]
                /\ p.tokens = SumTokens(p.records)
                /\ p.messages = Len(p.records))
    /\ [][ret'.op \in {"usage", "globalusage"} =>
             /\ store' = store
             /\ sessionStats' = sessionStats
             /\ processedMessages' = processedMessages
             /\ messagesSinceToast' = messagesSinceToast]_vars

\* usage reports the two messages of session s1 while the handler of the
\* second one is suspended at the await of its toast
C21_Witness ==
    /\ awaiting >= 1
    /\ ret.op = "usage"
    /\ ret.text = "stats"
    /\ ret.session = "s1"
    /\ ret.stats.messageCount = 2
    /\ Len(store) = 2

\* C25: handlers interleaved at the await of the usage toast keep the
\* counters of the serial run: with trigger "messages" and interval N a toast
\* is sent by exactly the steps that store the N-th, 2N-th, ... message, and
\* once no handler is suspended the counter is the number of stored messages
\* modulo N.
C25_InterleavedCountersAsSerial ==
    /\ []((MessagesMode /\ awaiting = 0) =>
              messagesSinceToast = Len(store) % config.toast.messagesInterval)
    /\ [][MessagesMode =>
             (FiredStep <=>
                 (RecordedStep /\ Len(store') % config.toast.messagesInterval = 0))]_vars

====
